---- MODULE Spec2Model ----
(***************************************************************************)
(* Model of src/src/ConvertReferences.tsx: the reference finder            *)
(* (findReferences), the scan handler (scanForReferences) and the batched  *)
(* conversion handler (convertReferences) of the ConvertReferences         *)
(* component, together with the document store they talk to.               *)
(*                                                                         *)
(* JavaScript runs a handler without interruption up to its next await, so *)
(* one action is one such run: from the event to the first await, or from  *)
(* the completion of an awaited call to the next await or to the end.      *)
(***************************************************************************)
EXTENDS Integers, Sequences, FiniteSets, TLC

(***************************************************************************)
(* Bounds of the model.                                                    *)
(***************************************************************************)
MaxDocs == 1
    \* documents in the store of the component-level specification
MaxGroups == 4
    \* documents fetched for the pipeline-level specification
MaxBatch == 2
    \* largest batchSize property
MaxEvents == 5
    \* user events (clicks, Enter) in one behaviour of the component
MaxSpin == 2
    \* iterations of a batch loop that cannot advance (batchSize <= 0)
    \* followed before the handler is taken to run forever

(***************************************************************************)
(* Program constants.                                                      *)
(***************************************************************************)
BytesPerRef == 20

(***************************************************************************)
(* JSON values.  An object keeps its keys in insertion order, as           *)
(* Object.keys enumerates them.                                            *)
(***************************************************************************)
Str(s) == [kind |-> "str", s |-> s]
Bool(b) == [kind |-> "bool", b |-> b]
Null == [kind |-> "null"]
Undefined == [kind |-> "undef"]
Arr(items) == [kind |-> "arr", items |-> items]
Obj(fields) == [kind |-> "obj", fields |-> fields]
F(k, v) == [k |-> k, v |-> v]

\* obj[key] of JavaScript: undefined on a missing key and on an array
Get(o, key) ==
    IF o.kind = "obj" /\ \E n \in 1..Len(o.fields) : o.fields[n].k = key
    THEN o.fields[CHOOSE n \in 1..Len(o.fields) : o.fields[n].k = key].v
    ELSE Undefined

HasKey(o, key) ==
    o.kind = "obj" /\ \E n \in 1..Len(o.fields) : o.fields[n].k = key

\* JavaScript truthiness of a value
Truthy(v) ==
    CASE v.kind = "undef" -> FALSE
      [] v.kind = "null" -> FALSE
      [] v.kind = "bool" -> v.b
      [] v.kind = "str" -> v.s # ""
      [] OTHER -> TRUE

\* value && typeof value === 'object'
IsObjectValue(v) == v.kind \in {"obj", "arr"}

\* value._type === 'reference'
IsReferenceType(v) ==
    LET t == Get(v, "_type") IN t.kind = "str" /\ t.s = "reference"

(***************************************************************************)
(* Paths are strings built by concatenation; a string is the sequence of   *)
(* its pieces: keys, ".", "[", the decimal index and "]".                  *)
(***************************************************************************)
IndexStr(index) == ToString(index)

\* ArrayPath with the index joined like a key, after a dot
ArrayPathDotted(path, index) == path \o <<".", "[", IndexStr(index), "]">>

\* `${path}[${index}]`
ArrayPath(path, index) == path \o <<"[", IndexStr(index), "]">>

\* path ? `${path}.${key}` : key
KeyPath(path, key) == IF path # <<>> THEN path \o <<".", key>> ELSE <<key>>

Modes == {"strong-to-weak", "weak-to-strong"}

(***************************************************************************)
(* findReferences(obj, type, path)                                         *)
(***************************************************************************)
RECURSIVE findReferences(_, _, _)
RECURSIVE FindInItems(_, _, _, _)
RECURSIVE FindInKeys(_, _, _, _)

\* FindAtKey without the weak-to-strong branch: a descriptor is a leaf that
\* only a strong-to-weak scan emits
FindAtKeyStrongOnly(value, type, currentPath) ==
    IF ~IsObjectValue(value) THEN <<>>
    ELSE IF IsReferenceType(value) /\ Truthy(Get(value, "_ref"))
    THEN IF type = "strong-to-weak"
         THEN <<[path |-> currentPath, type |-> "strong", ref |-> Get(value, "_ref"),
                 weak |-> IF Truthy(Get(value, "_weak"))
                          THEN Get(value, "_weak") ELSE Bool(FALSE)]>>
         ELSE <<>>
    ELSE findReferences(value, type, currentPath)

\* the occurrence a key's value contributes (the body of Object.keys.forEach)
FindAtKey(value, type, currentPath) ==
    IF ~IsObjectValue(value) THEN <<>>
    ELSE IF type = "strong-to-weak" /\ IsReferenceType(value)
            /\ Truthy(Get(value, "_ref"))
    THEN <<[path |-> currentPath, type |-> "strong", ref |-> Get(value, "_ref"),
            weak |-> IF Truthy(Get(value, "_weak"))
                     THEN Get(value, "_weak") ELSE Bool(FALSE)]>>
    ELSE IF type = "weak-to-strong" /\ IsReferenceType(value)
            /\ Truthy(Get(value, "_ref")) /\ Truthy(Get(value, "_weak"))
    THEN <<[path |-> currentPath, type |-> "weak", ref |-> Get(value, "_ref"),
            weak |-> Bool(TRUE)]>>
    ELSE findReferences(value, type, currentPath)

\* obj.forEach over the first n items
FindInItems(items, type, path, n) ==
    IF n = 0 THEN <<>>
    ELSE FindInItems(items, type, path, n - 1)
         \o findReferences(items[n], type, ArrayPath(path, n - 1))

\* Object.keys(obj).forEach over the first n keys
FindInKeys(fields, type, path, n) ==
    IF n = 0 THEN <<>>
    ELSE FindInKeys(fields, type, path, n - 1)
         \o FindAtKey(fields[n].v, type, KeyPath(path, fields[n].k))

findReferences(obj, type, path) ==
    IF ~IsObjectValue(obj) THEN <<>>
    ELSE IF obj.kind = "arr"
    THEN FindInItems(obj.items, type, path, Len(obj.items))
    ELSE FindInKeys(obj.fields, type, path, Len(obj.fields))

(***************************************************************************)
(* Documents of the store.  A document is an object with an _id; the       *)
(* bodies below are the shapes a store of the model may hold.              *)
(***************************************************************************)
Ref(t) == Obj(<<F("_type", Str("reference")), F("_ref", Str(t))>>)
WeakRef(t) ==
    Obj(<<F("_type", Str("reference")), F("_ref", Str(t)), F("_weak", Bool(TRUE))>>)
KeyedRef(t) ==
    Obj(<<F("_key", Str("k")), F("_type", Str("reference")), F("_ref", Str(t))>>)

BodyStrong == <<F("author", Ref("x"))>>
BodyWeak == <<F("author", WeakRef("y"))>>
BodyNested ==
    <<F("title", Str("t")),
      F("items", Arr(<<Obj(<<F("title", Str("u"))>>),
                       Obj(<<F("linked", KeyedRef("x"))>>)>>)),
      F("editor", Ref("z"))>>
BodyPlain == <<F("title", Str("t")), F("tags", Arr(<<Str("a"), Null>>))>>

DocBodies == {BodyStrong, BodyWeak, BodyNested, BodyPlain}

DocId(n) == "d" \o ToString(n)
Doc(n, body) == Obj(<<F("_id", Str(DocId(n)))>> \o body)

\* the stores of at most max documents (none included): document n has the id DocId(n)
Stores(max) ==
    UNION {{[n \in 1..len |-> Doc(n, bodies[n])] : bodies \in [1..len -> DocBodies]}
           : len \in 0..max}

(***************************************************************************)
(* The store's side of client.patch(id).set({[path]: value}).commit():     *)
(* the path string is read back into its segments and the value at the     *)
(* path is replaced by the given value.                                    *)
(***************************************************************************)
\* the position (from 1) of the item an index string names, 0 when none
ParseIndex(items, tok) ==
    IF \E n \in 1..Len(items) : IndexStr(n - 1) = tok
    THEN CHOOSE n \in 1..Len(items) : IndexStr(n - 1) = tok
    ELSE 0

RECURSIVE SetAt(_, _, _)
SetAt(node, path, value) ==
    IF path = <<>> THEN value
    ELSE IF Head(path) = "." THEN SetAt(node, Tail(path), value)
    ELSE IF Head(path) = "["
    THEN LET rest == SubSeq(path, 4, Len(path))
         IN IF node.kind = "arr" /\ ParseIndex(node.items, path[2]) > 0
            THEN Arr([node.items EXCEPT
                        ![ParseIndex(node.items, path[2])] = SetAt(@, rest, value)])
            ELSE node
    ELSE IF HasKey(node, Head(path))
    THEN Obj([m \in 1..Len(node.fields) |->
                IF node.fields[m].k = Head(path)
                THEN F(node.fields[m].k, SetAt(node.fields[m].v, Tail(path), value))
                ELSE node.fields[m]])
    ELSE node

\* the value a path leads to (Undefined when it leads nowhere)
RECURSIVE GetAt(_, _)
GetAt(node, path) ==
    IF path = <<>> THEN node
    ELSE IF Head(path) = "." THEN GetAt(node, Tail(path))
    ELSE IF Head(path) = "["
    THEN IF node.kind = "arr" /\ ParseIndex(node.items, path[2]) > 0
         THEN GetAt(node.items[ParseIndex(node.items, path[2])],
                    SubSeq(path, 4, Len(path)))
         ELSE Undefined
    ELSE IF HasKey(node, Head(path)) THEN GetAt(Get(node, Head(path)), Tail(path))
    ELSE Undefined

\* all set operations of one commit, applied in order
RECURSIVE ApplyOps(_, _, _)
ApplyOps(doc, ops, n) ==
    IF n = 0 THEN doc
    ELSE SetAt(ApplyOps(doc, ops, n - 1), ops[n].path, ops[n].value)

\* the store after the commit: the document with the commit's id is patched
CommitToStore(docs, commit) ==
    [n \in 1..Len(docs) |->
        IF Get(docs[n], "_id") = commit.id
        THEN ApplyOps(docs[n], commit.ops, Len(commit.ops))
        ELSE docs[n]]

(***************************************************************************)
(* scanForReferences: the groups built from the fetched documents.         *)
(***************************************************************************)
\* ScanGroups without the test of refs.length: every document gets a group
RECURSIVE ScanGroupsKeepingAll(_, _, _)
ScanGroupsKeepingAll(docs, type, n) ==
    IF n = 0 THEN <<>>
    ELSE LET refs == findReferences(docs[n], type, <<>>)
         IN ScanGroupsKeepingAll(docs, type, n - 1)
            \o <<[document |-> docs[n], references |-> refs, refCount |-> Len(refs)]>>

RECURSIVE ScanGroups(_, _, _)
ScanGroups(docs, type, n) ==
    IF n = 0 THEN <<>>
    ELSE LET refs == findReferences(docs[n], type, <<>>)
         IN ScanGroups(docs, type, n - 1)
            \o (IF Len(refs) > 0
                THEN <<[document |-> docs[n], references |-> refs,
                        refCount |-> Len(refs)]>>
                ELSE <<>>)

\* what a rejected promise carries: an Error with a message, or another value
Failures ==
    {[isError |-> TRUE, message |-> "timeout"],
     [isError |-> FALSE, message |-> "timeout"]}

\* error instanceof Error ? error.message : fallback
ErrorMessage(error, fallback) == IF error.isError THEN error.message ELSE fallback

(***************************************************************************)
(* convertReferences.  The record c holds what the handler's closure       *)
(* captured (groups, mode, dry, b), its locals (i, lo, hi, k, converted,   *)
(* errors, spaceSaved) and a history of what it did (attempted, batches,   *)
(* progress, commits, delivered: the calls of onComplete; outcomes: what   *)
(* the store answered to each commit; scanned: the mode the groups were    *)
(* scanned under).                                                         *)
(***************************************************************************)
\* the bounds of Array.prototype.slice(start, end) on an array of length n:
\* the items at positions from+1..to (from 1), none when from >= to
SliceIndex(x, n) ==
    IF x < 0 THEN (IF n + x < 0 THEN 0 ELSE n + x) ELSE (IF x > n THEN n ELSE x)

\* PatchValue with the weak marker set to false where it is to be removed
PatchValueWeakFalse(ref, mode) ==
    Obj(<<F("_type", Str("reference")), F("_ref", ref.ref),
          F("_weak", Bool(mode = "strong-to-weak"))>>)

\* the patch value of one reference
PatchValue(ref, mode) ==
    IF mode = "strong-to-weak"
    THEN Obj(<<F("_type", Str("reference")), F("_ref", ref.ref), F("_weak", Bool(TRUE))>>)
    ELSE Obj(<<F("_type", Str("reference")), F("_ref", ref.ref)>>)

\* BuildPatches with the patch of the first reference only
BuildPatchesFirstOnly(references, mode) ==
    [n \in 1..(IF Len(references) > 0 THEN 1 ELSE 0) |->
        [path |-> references[n].path, value |-> PatchValue(references[n], mode)]]

\* references.forEach(ref => patches.push(...))
BuildPatches(references, mode) ==
    [n \in 1..Len(references) |->
        [path |-> references[n].path, value |-> PatchValue(references[n], mode)]]

\* the message set after a batch
ProgressMessage(c) ==
    <<IF c.dry THEN "Would convert" ELSE "Converted", " ", ToString(c.converted),
      "/", ToString(Len(c.groups)), " documents...">>

\* AfterBatch with the loop stepping by one (i++) in place of i += batchSize
AfterBatchByOne(c) ==
    [c EXCEPT !.progress = Append(@, ProgressMessage(c)), !.i = @ + 1, !.pc = "loop"]

\* AfterBatch with the loop stepping backwards (i -= batchSize)
AfterBatchBackwards(c) ==
    LET empty == c.hi <= c.lo
        spin == IF empty THEN c.spin + 1 ELSE c.spin
    IN [c EXCEPT !.progress = Append(@, ProgressMessage(c)),
                 !.i = @ - c.b,
                 !.spin = spin,
                 !.pc = IF spin >= MaxSpin THEN "hung" ELSE "loop"]

\* the end of one iteration of the batch loop: setMessage, then i += batchSize
AfterBatch(c) ==
    LET empty == c.hi <= c.lo
        spin == IF empty THEN c.spin + 1 ELSE c.spin
    IN [c EXCEPT !.progress = Append(@, ProgressMessage(c)),
                 !.i = @ + c.b,
                 !.spin = spin,
                 !.pc = IF spin >= MaxSpin THEN "hung" ELSE "loop"]

\* the next item of the batch, or the end of the batch
NextItem(c) ==
    IF c.k < c.hi - c.lo THEN [c EXCEPT !.k = @ + 1, !.pc = "item"] ELSE AfterBatch(c)

\* ItemSucceeded with the estimate counted per document, not per reference
ItemSucceededPerDocument(c) ==
    NextItem([c EXCEPT
        !.converted = @ + 1,
        !.spaceSaved = IF c.mode = "strong-to-weak" THEN @ + BytesPerRef ELSE @])

\* after the commit (or at once in a dry run): converted++, spaceSaved
ItemSucceeded(c) ==
    LET item == c.groups[c.lo + c.k]
    IN NextItem([c EXCEPT
            !.converted = @ + 1,
            !.spaceSaved = IF c.mode = "strong-to-weak"
                           THEN @ + Len(item.references) * BytesPerRef ELSE @])

\* ItemFailed without the inner try: the failure leaves the batch loop
ItemFailedAborts(c, error) ==
    LET item == c.groups[c.lo + c.k]
    IN [c EXCEPT
            !.errors = Append(@, <<"Failed to convert ", Get(item.document, "_id").s,
                                   ": ", ErrorMessage(error, "Conversion failed")>>),
            !.pc = "end"]

\* ItemFailed with converted++ moved before the await: a failure is counted too
ItemFailedCounted(c, error) ==
    LET item == c.groups[c.lo + c.k]
    IN NextItem([c EXCEPT
            !.converted = @ + 1,
            !.errors = Append(@, <<"Failed to convert ", Get(item.document, "_id").s,
                                   ": ", ErrorMessage(error, "Conversion failed")>>)])

\* the inner catch: errors.push(`Failed to convert ${id}: ${errorMessage}`)
ItemFailed(c, error) ==
    LET item == c.groups[c.lo + c.k]
    IN NextItem([c EXCEPT
            !.errors = Append(@, <<"Failed to convert ", Get(item.document, "_id").s,
                                   ": ", ErrorMessage(error, "Conversion failed")>>)])

\* ProcessItem without the test of dryRun: every item is committed
ProcessItemIgnoringDryRun(c) ==
    LET item == c.groups[c.lo + c.k]
        commit == [id |-> Get(item.document, "_id"),
                   ops |-> BuildPatches(item.references, c.mode)]
    IN [c EXCEPT !.attempted = Append(@, c.lo + c.k), !.pc = "await",
                 !.commits = Append(@, commit)]

\* ProcessItem with the commit not awaited: the handler goes on at once
ProcessItemNotAwaited(c) ==
    LET item == c.groups[c.lo + c.k]
        d == [c EXCEPT !.attempted = Append(@, c.lo + c.k)]
    IN IF ~c.dry
       THEN LET commit == [id |-> Get(item.document, "_id"),
                           ops |-> BuildPatches(item.references, c.mode)]
            IN ItemSucceeded([d EXCEPT !.commits = Append(@, commit)])
       ELSE ItemSucceeded(d)

\* the body of the inner try up to the await
ProcessItem(c) ==
    LET item == c.groups[c.lo + c.k]
        d == [c EXCEPT !.attempted = Append(@, c.lo + c.k)]
    IN IF ~c.dry
       THEN LET commit == [id |-> Get(item.document, "_id"),
                           ops |-> BuildPatches(item.references, c.mode)]
            IN [d EXCEPT !.pc = "await", !.commits = Append(@, commit)]
       ELSE ItemSucceeded(d)

\* the head of the batch loop: i < strongRefs.length, strongRefs.slice(i, i + b)
LoopHead(c) ==
    LET n == Len(c.groups)
        lo == SliceIndex(c.i, n)
        hi == SliceIndex(c.i + c.b, n)
    IN IF c.i < n
       THEN LET d == [c EXCEPT !.lo = lo, !.hi = hi, !.k = 1,
                               !.batches = Append(@, [m \in 1..(IF hi > lo THEN hi - lo ELSE 0)
                                                        |-> lo + m])]
            IN IF hi > lo THEN [d EXCEPT !.pc = "item"] ELSE AfterBatch(d)
       ELSE [c EXCEPT !.pc = "end"]

\* the handler runs on until it awaits a commit, ends, or never returns
\* (each step is computed once, as a value, before the next one is taken)
RECURSIVE RunSync(_)
RunSync(c) ==
    CASE c.pc = "loop" -> CHOOSE r \in {RunSync(d) : d \in {LoopHead(c)}} : TRUE
      [] c.pc = "item" -> CHOOSE r \in {RunSync(d) : d \in {ProcessItem(c)}} : TRUE
      [] OTHER -> c

\* the handler's state at its start
NewRun(groups, mode, dry, b, scanned) ==
    [pc |-> "loop", groups |-> groups, mode |-> mode, dry |-> dry, b |-> b,
     scanned |-> scanned,
     i |-> 0, lo |-> 0, hi |-> 0, k |-> 0, spin |-> 0,
     converted |-> 0, errors |-> <<>>, spaceSaved |-> 0, delivered |-> 0,
     attempted |-> <<>>, batches |-> <<>>, progress |-> <<>>, commits |-> <<>>,
     outcomes |-> <<>>]

\* the ConversionResult handed to onComplete
Result(c) == [converted |-> c.converted, errors |-> c.errors, spaceSaved |-> c.spaceSaved]

(***************************************************************************)
(* The component and its surroundings.                                     *)
(***************************************************************************)
VARIABLES
    batchSize, dryRun, maxDocuments,    \* the properties of the component
    store,                              \* the documents of the store, in fetch order
    store0,                             \* the store at the start
    isLoading, isScanning, documents, strongRefs, message, conversionType,
                                        \* the component's state (useState)
    scans,                              \* the fetches in flight, each with the
                                        \* conversionType its handler captured
    run,                                \* the last call of convertReferences
    refsType,                           \* the mode strongRefs was scanned under
    calls,                              \* the callbacks the last step called
    events                              \* the user events so far

vars ==
    <<batchSize, dryRun, maxDocuments, store, store0, isLoading, isScanning, documents,
      strongRefs, message, conversionType, scans, run, refsType, calls, events>>

props == <<batchSize, dryRun, maxDocuments, store0>>

NoRun == [NewRun(<<>>, "strong-to-weak", FALSE, 1, "none") EXCEPT !.pc = "idle"]

\* the component after construction (lines 46-55)
InitComponent ==
    /\ isLoading = FALSE
    /\ isScanning = FALSE
    /\ scans = <<>>
    /\ run = NoRun
    /\ calls = <<>>
    /\ events = 0

Init ==
    /\ batchSize \in -1..MaxBatch
    /\ dryRun \in BOOLEAN
    /\ maxDocuments \in {0, MaxDocs}
    /\ store \in Stores(MaxDocs)
    /\ store0 = store
    /\ documents = <<>>
    /\ strongRefs = <<>>
    /\ message = <<>>
    /\ conversionType = "strong-to-weak"
    /\ refsType = "none"
    /\ InitComponent

\* a handler can run only while no other handler holds the thread for ever
Responsive == run.pc # "hung"

\* onClick of the two mode buttons
setConversionType(t) ==
    /\ Responsive
    /\ events < MaxEvents
    /\ events' = events + 1
    /\ conversionType' = t
    /\ calls' = <<>>
    /\ UNCHANGED <<props, store, isLoading, isScanning, documents, strongRefs, message,
                   scans, run, refsType>>

\* *[...][0...maxDocuments]: the documents the query selects
FetchResult(docs, cap) ==
    SubSeq(docs, 1, IF cap > Len(docs) THEN Len(docs) ELSE cap)

\* scanForReferences up to its await of client.fetch
scanForReferences ==
    /\ isScanning' = TRUE
    /\ message' = <<"Scanning for documents with references...">>
    /\ scans' = Append(scans, [type |-> conversionType, cap |-> maxDocuments])
    /\ calls' = <<>>
    /\ UNCHANGED <<props, store, isLoading, documents, strongRefs, conversionType, run,
                   refsType>>

\* the Scan button, disabled while scanning or loading
ScanClick ==
    /\ Responsive
    /\ events < MaxEvents
    /\ events' = events + 1
    /\ ~(isScanning \/ isLoading)
    /\ scanForReferences

\* Enter in the search field
ScanEnter ==
    /\ Responsive
    /\ events < MaxEvents
    /\ events' = events + 1
    /\ scanForReferences

Without(seq, j) == SubSeq(seq, 1, j - 1) \o SubSeq(seq, j + 1, Len(seq))

\* the message at the end of a scan
FoundMessage(refsToConvert, type) ==
    <<"Found ", ToString(Len(refsToConvert)), " documents with ",
      IF type = "strong-to-weak" THEN "strong" ELSE "weak", " references to convert">>

\* scanForReferences from the fetched documents to its end
FetchResolve(j) ==
    /\ Responsive
    /\ j \in 1..Len(scans)
    /\ LET docs == FetchResult(store, scans[j].cap)
           refsToConvert == ScanGroups(docs, scans[j].type, Len(docs))
       IN /\ documents' = docs
          /\ strongRefs' = refsToConvert
          /\ refsType' = scans[j].type
          /\ message' = FoundMessage(refsToConvert, scans[j].type)
    /\ isScanning' = FALSE
    /\ scans' = Without(scans, j)
    /\ calls' = <<>>
    /\ UNCHANGED <<props, store, isLoading, conversionType, run, events>>

\* scanForReferences from the failed fetch to its end (catch, finally)
FetchReject(j, error) ==
    /\ Responsive
    /\ j \in 1..Len(scans)
    /\ message' = <<"Scan error: ", ErrorMessage(error, "Scan failed")>>
    /\ calls' = <<[callback |-> "onError", arg |-> ErrorMessage(error, "Scan failed")]>>
    /\ isScanning' = FALSE
    /\ scans' = Without(scans, j)
    /\ UNCHANGED <<props, store, isLoading, documents, strongRefs, conversionType, run,
                   refsType, events>>

\* Settle with a run that had failures reported by onError, not onComplete
SettleByOnError(c) ==
    IF c.pc = "end"
    THEN /\ run' = [c EXCEPT !.pc = "done",
                             !.delivered = IF c.errors = <<>> THEN @ + 1 ELSE @]
         /\ message' = <<IF c.dry THEN "Dry run complete" ELSE "Conversion complete", ": ",
                         ToString(c.converted), " documents processed">>
         /\ calls' = IF c.errors = <<>>
                     THEN <<[callback |-> "onComplete", arg |-> Result(c)]>>
                     ELSE <<[callback |-> "onError", arg |-> c.errors[1]]>>
         /\ isLoading' = FALSE
    ELSE /\ run' = c
         /\ message' = message
         /\ calls' = <<>>
         /\ isLoading' = TRUE

\* convertReferences from where the call c stands (c.pc is "end", "await" or
\* "hung"; run is the call as it stood before): at the end the result is
\* delivered and the loading state left; otherwise the message is the last
\* one set
Settle(call) ==
    \E c \in {call} :
        IF c.pc = "end"
        THEN /\ run' = [c EXCEPT !.pc = "done", !.delivered = @ + 1]
             /\ message' = <<IF c.dry THEN "Dry run complete" ELSE "Conversion complete",
                             ": ", ToString(c.converted), " documents processed">>
             /\ calls' = <<[callback |-> "onComplete", arg |-> Result(c)]>>
             /\ isLoading' = FALSE
        ELSE /\ run' = c
             /\ message' = LET before == IF run.pc = "await" THEN Len(run.progress) ELSE 0
                           IN IF Len(c.progress) > before THEN c.progress[Len(c.progress)]
                              ELSE IF run.pc = "await" THEN message
                              ELSE <<"Converting references...">>
             /\ calls' = <<>>
             /\ isLoading' = TRUE

\* convertReferences up to its first await
convertReferences ==
    /\ IF strongRefs = <<>>
       THEN /\ run' = [NoRun EXCEPT !.pc = "returned"]
            /\ calls' = <<>>
            /\ UNCHANGED <<message, isLoading>>
       ELSE Settle(RunSync(NewRun(strongRefs, conversionType, dryRun, batchSize, refsType)))
    /\ UNCHANGED <<props, store, isScanning, documents, strongRefs, conversionType, scans,
                   refsType>>

\* the Convert button, rendered when there are groups, disabled while busy
ConvertClick ==
    /\ Responsive
    /\ events < MaxEvents
    /\ events' = events + 1
    /\ Len(strongRefs) > 0
    /\ ~(isLoading \/ isScanning)
    /\ convertReferences

\* convertReferences from the confirmed commit on: the store holds the patch
CommitResolve ==
    /\ run.pc = "await"
    /\ store' = CommitToStore(store, run.commits[Len(run.commits)])
    /\ Settle(RunSync(ItemSucceeded([run EXCEPT !.outcomes = Append(@, [ok |-> TRUE])])))
    /\ UNCHANGED <<props, isScanning, documents, strongRefs, conversionType, scans,
                   refsType, events>>

\* convertReferences from the failed commit on: the store is as it was
CommitReject(error) ==
    /\ run.pc = "await"
    /\ Settle(RunSync(ItemFailed(
            [run EXCEPT !.outcomes = Append(@, [ok |-> FALSE, error |-> error])], error)))
    /\ UNCHANGED <<props, store, isScanning, documents, strongRefs, conversionType, scans,
                   refsType, events>>

Next ==
    \/ \E t \in Modes : setConversionType(t)
    \/ ScanClick
    \/ ScanEnter
    \/ \E j \in 1..Len(scans) : FetchResolve(j)
    \/ \E j \in 1..Len(scans), e \in Failures : FetchReject(j, e)
    \/ ConvertClick
    \/ CommitResolve
    \/ \E e \in Failures : CommitReject(e)

Spec == Init /\ [][Next]_vars

(***************************************************************************)
(* The conversion pipeline on its own: convertReferences called once on    *)
(* the groups of a finished scan, for every store, mode, batchSize >= 1    *)
(* and dryRun of the bounds, and on the example of the specification       *)
(* (ExampleGroups groups in batches of ExampleBatch, as a dry run).        *)
(***************************************************************************)
ExampleGroups == 25
ExampleBatch == 10

InitPipeline ==
    /\ \/ /\ batchSize \in 1..MaxBatch
          /\ dryRun \in BOOLEAN
          /\ store \in Stores(MaxGroups)
       \/ /\ batchSize = ExampleBatch
          /\ dryRun = TRUE
          /\ store = [n \in 1..ExampleGroups |-> Doc(n, BodyStrong)]
    /\ maxDocuments = Len(store)
    /\ store0 = store
    /\ documents = store
    /\ conversionType \in Modes
    /\ refsType = conversionType
    /\ strongRefs = ScanGroups(store, conversionType, Len(store))
    /\ message = FoundMessage(strongRefs, conversionType)
    /\ InitComponent

\* a call of the handler
ConvertCall ==
    /\ run.pc = "idle"
    /\ convertReferences
    /\ UNCHANGED events

NextPipeline ==
    \/ ConvertCall
    \/ CommitResolve
    \/ \E e \in Failures : CommitReject(e)

SpecPipeline == InitPipeline /\ [][NextPipeline]_vars

\* the awaited commit returns: the store confirms it or it fails
CommitReturns == CommitResolve \/ \E e \in Failures : CommitReject(e)

\* the pipeline with a store that answers every commit in the end
MaxLiveGroups == 3
    \* documents fetched where the end of the run is checked

InitLive == InitPipeline /\ Len(store) <= MaxLiveGroups

SpecPipelineLive == InitLive /\ [][NextPipeline]_vars /\ WF_vars(CommitReturns)

(***************************************************************************)
(* The scan on its own: scanForReferences called once, in either mode, on  *)
(* every store of the bounds with every cap on the documents fetched, and  *)
(* on every one-document store made of the values below: plain values,     *)
(* descriptors (strong, weak, with _weak: false, with a descriptor in a    *)
(* field of their own), an object with the type tag and no target, and     *)
(* these held under a key, in an array, and in the objects of an array.    *)
(***************************************************************************)
NestedRef(t, u) ==
    Obj(<<F("_type", Str("reference")), F("_ref", Str(t)), F("via", WeakRef(u))>>)

Leaves ==
    {Str("t"), Null, Ref("x"), WeakRef("y"), KeyedRef("x"),
     Obj(<<F("_type", Str("reference")), F("_ref", Str("x")), F("_weak", Bool(FALSE))>>),
     Obj(<<F("_type", Str("reference")), F("inner", WeakRef("y"))>>),
     NestedRef("x", "y")}

Values ==
    Leaves
    \cup {Arr(<<a, b>>) : a, b \in Leaves}
    \cup {Obj(<<F("linked", a)>>) : a \in Leaves}
    \cup {Arr(<<Obj(<<F("linked", a)>>), Obj(<<F("linked", b)>>)>>) : a, b \in Leaves}

TreeBodies == {<<F("author", a), F("items", v)>> : a \in Leaves, v \in Values}

InitScan ==
    /\ batchSize = 1
    /\ dryRun = FALSE
    /\ \/ /\ store \in Stores(MaxGroups)
          /\ maxDocuments \in 0..Len(store)
       \/ /\ store \in {<<Doc(1, body)>> : body \in TreeBodies}
          /\ maxDocuments = 1
    /\ store0 = store
    /\ documents = <<>>
    /\ strongRefs = <<>>
    /\ message = <<>>
    /\ conversionType \in Modes
    /\ refsType = "none"
    /\ InitComponent

\* a call of the handler
ScanCall ==
    /\ scans = <<>> /\ refsType = "none"
    /\ scanForReferences
    /\ UNCHANGED events

NextScan ==
    \/ ScanCall
    \/ \E j \in 1..Len(scans) : FetchResolve(j)
    \/ \E j \in 1..Len(scans), e \in Failures : FetchReject(j, e)

SpecScan == InitScan /\ [][NextScan]_vars

(***************************************************************************)
(* Properties of the conversion pipeline (SpecPipeline).                   *)
(***************************************************************************)
Min(a, b) == IF a < b THEN a ELSE b
CeilDiv(n, b) == (n + b - 1) \div b
Positions(n) == [m \in 1..n |-> m]

\* C1: in a run that is no dry run the groups are attempted once each, in
\* list order, whatever commits fail: a failed commit is followed by the
\* attempt on the next group, also across batches, and the run ends with
\* every group attempted and its result delivered.
C1_EveryGroupAttempted ==
    ~run.dry =>
        /\ run.pc \in {"idle", "returned", "await", "done"}
        /\ run.attempted = Positions(Len(run.attempted))
        /\ Len(run.commits) = Len(run.attempted)
        /\ \A n \in 1..Len(run.commits) :
              run.commits[n].id = Get(run.groups[n].document, "_id")
        /\ run.pc = "await" => Len(run.attempted) = Len(run.outcomes) + 1
        /\ run.pc = "done" =>
              /\ Len(run.attempted) = Len(run.groups)
              /\ Len(run.outcomes) = Len(run.groups)
              /\ run.delivered = 1

\* a run over three groups in two batches or more whose first commit failed
\* and whose last one succeeded
C1_Witness ==
    /\ run.pc = "done" /\ ~run.dry
    /\ Len(run.groups) = 3 /\ Len(run.batches) >= 2
    /\ ~run.outcomes[1].ok /\ ~run.outcomes[2].ok /\ run.outcomes[3].ok

\* the error entries of the first n groups, from what the store answered
RECURSIVE ExpectedErrors(_, _)
ExpectedErrors(c, n) ==
    IF n = 0 THEN <<>>
    ELSE ExpectedErrors(c, n - 1)
         \o (IF c.outcomes[n].ok THEN <<>>
             ELSE <<<<"Failed to convert ", Get(c.groups[n].document, "_id").s, ": ",
                      IF c.outcomes[n].error.isError THEN c.outcomes[n].error.message
                      ELSE "Conversion failed">>>>)

\* C2: at the end of a run convertedCount is the number of groups that
\* succeeded and errors holds one entry per failed group, in order, made of
\* the group's document id and the message of the Error the commit failed
\* with ("Conversion failed" when the failure is no Error); the two add up
\* to the number of groups, and this is the result handed to onComplete.
C2_CountsAndErrors ==
    run.pc = "done" =>
        /\ run.dry => run.converted = Len(run.groups) /\ run.errors = <<>>
        /\ ~run.dry =>
              /\ run.converted = Cardinality({n \in 1..Len(run.groups) : run.outcomes[n].ok})
              /\ run.errors = ExpectedErrors(run, Len(run.groups))
        /\ run.converted + Len(run.errors) = Len(run.groups)
        /\ calls = <<[callback |-> "onComplete",
                      arg |-> [converted |-> run.converted, errors |-> run.errors,
                               spaceSaved |-> run.spaceSaved]]>>

\* a run in which a commit failed with the Error "timeout" between two
\* commits that succeeded
C2_Witness ==
    /\ run.pc = "done" /\ ~run.dry /\ Len(run.groups) = 3
    /\ run.outcomes[1].ok /\ run.outcomes[3].ok
    /\ ~run.outcomes[2].ok /\ run.outcomes[2].error.isError
    /\ run.converted = 2
    /\ run.errors = <<<<"Failed to convert ", "d2", ": ", "timeout">>>>

RECURSIVE TotalRefs(_, _)
TotalRefs(groups, n) ==
    IF n = 0 THEN 0 ELSE TotalRefs(groups, n - 1) + Len(groups[n].references)

ExpectedSpace(groups, mode) ==
    IF mode = "strong-to-weak" THEN 20 * TotalRefs(groups, Len(groups)) ELSE 0

\* C6: a dry run issues no commit and leaves the store as it was, and at
\* its end convertedCount is the number of groups and spaceSaved is what a
\* run with every commit confirmed ends with over the same groups: 20 bytes
\* per reference in strong-to-weak mode, 0 in weak-to-strong mode.
C6_DryRun ==
    /\ run.dry =>
          /\ run.commits = <<>> /\ run.outcomes = <<>>
          /\ store = store0
          /\ run.pc # "await"
    /\ (run.pc = "done" /\ (run.dry \/ run.errors = <<>>)) =>
          /\ run.converted = Len(run.groups)
          /\ run.spaceSaved = ExpectedSpace(run.groups, run.mode)

\* a finished dry run over two groups or more with references to count
C6_Witness ==
    /\ run.pc = "done" /\ run.dry
    /\ Len(run.groups) >= 2 /\ Len(run.groups) <= MaxGroups
    /\ run.converted = Len(run.groups)
    /\ run.spaceSaved > 20 * Len(run.groups)

C9_Batches ==
    LET n == Len(run.groups)
        b == run.b
    IN run.pc \in {"await", "done"} =>
        /\ b >= 1
        /\ \A j \in 1..Len(run.batches) :
              run.batches[j] = [m \in 1..Min(b, n - (j - 1) * b) |-> (j - 1) * b + m]
        /\ Len(run.batches) <= CeilDiv(n, b)
        /\ Len(run.progress) = (IF run.pc = "done" THEN Len(run.batches)
                                ELSE Len(run.batches) - 1)
        /\ \A j \in 1..Len(run.progress) :
              /\ run.progress[j][1] = (IF run.dry THEN "Would convert" ELSE "Converted")
              /\ run.progress[j][5] = ToString(n)
        /\ run.pc = "done" =>
              /\ Len(run.batches) = CeilDiv(n, b)
              /\ run.attempted = Positions(n)
              /\ run.errors = <<>> => /\ run.converted = n
                                      /\ run.progress[Len(run.progress)][3] = ToString(n)

\* the example: 25 groups in batches of 10 give batches of 10, 10 and 5
C9_Witness ==
    /\ run.pc = "done"
    /\ Len(run.groups) = ExampleGroups /\ run.b = ExampleBatch
    /\ Len(run.batches) = 3
    /\ Len(run.batches[1]) = ExampleBatch /\ Len(run.batches[2]) = ExampleBatch
    /\ Len(run.batches[3]) = ExampleGroups - 2 * ExampleBatch
    /\ run.converted = ExampleGroups

(***************************************************************************)
(* Properties of the component (Spec).                                     *)
(***************************************************************************)
\* C3: a conversion runs in the mode its groups were scanned under: the
\* mode buttons invalidate the scanned groups, so that no conversion runs
\* on groups of the other mode before a new scan.
C3_Original ==
    run.pc \in {"await", "done", "hung"} => run.mode = run.scanned

\* C4: when a fetch has failed (the step that calls onError), onError was
\* called once and there are no pending groups for a conversion to work on,
\* whatever an earlier scan had found.
C4_Original ==
    (calls # <<>> /\ calls[1].callback = "onError") =>
        /\ Len(calls) = 1
        /\ strongRefs = <<>>

\* C5: the groups of a strong-to-weak scan hold no occurrence of a
\* descriptor that is marked weak already, and every occurrence has
\* weak = false.
C5_Original ==
    refsType = "strong-to-weak" =>
        \A g \in 1..Len(strongRefs) : \A r \in 1..Len(strongRefs[g].references) :
            LET ref == strongRefs[g].references[r]
            IN /\ ref.weak = Bool(FALSE)
               /\ ~Truthy(Get(GetAt(strongRefs[g].document, ref.path), "_weak"))

\* C8: with batchSize <= 0 or maxDocuments <= 0 nothing starts: no fetch is
\* in flight, no commit was issued, the component neither scans nor loads.
C8_Original ==
    (batchSize <= 0 \/ maxDocuments <= 0) =>
        /\ scans = <<>>
        /\ run.commits = <<>>
        /\ ~isScanning /\ ~isLoading

DocById(docs, id) == docs[CHOOSE n \in 1..Len(docs) : Get(docs[n], "_id") = id]

\* a reference descriptor with a target and no weak marker
IsStrongDescriptor(v) ==
    IsReferenceType(v) /\ Truthy(Get(v, "_ref")) /\ ~HasKey(v, "_weak")

\* the occurrences of a finished weak-to-strong conversion of groups scanned
\* weak-to-strong, at paths where the document held a strong descriptor at
\* the start: the paths that went from strong to weak and back
RoundTrips ==
    IF run.pc = "done" /\ ~run.dry
       /\ run.mode = "weak-to-strong" /\ run.scanned = "weak-to-strong"
    THEN UNION {{<<g, r>> : r \in {q \in 1..Len(run.groups[g].references) :
                    /\ run.outcomes[g].ok
                    /\ IsStrongDescriptor(
                          GetAt(DocById(store0, Get(run.groups[g].document, "_id")),
                                run.groups[g].references[q].path))}}
                : g \in 1..Len(run.groups)}
    ELSE {}

\* C10: where a strong descriptor was made weak by a strong-to-weak scan
\* and conversion and then strong again by a weak-to-strong scan and
\* conversion, the store holds a descriptor with the type tag and the
\* target id of the original and with no weak marker at all.
C10_RoundTrip ==
    \A gr \in RoundTrips :
        LET id == Get(run.groups[gr[1]].document, "_id")
            path == run.groups[gr[1]].references[gr[2]].path
            orig == GetAt(DocById(store0, id), path)
            cur == GetAt(DocById(store, id), path)
        IN /\ Get(cur, "_type") = Get(orig, "_type")
           /\ Get(cur, "_ref") = Get(orig, "_ref")
           /\ ~HasKey(cur, "_weak")

\* a round trip of the descriptor at items[1].linked
C10_Witness ==
    \E gr \in RoundTrips :
        run.groups[gr[1]].references[gr[2]].path = <<"items", "[", "1", "]", ".", "linked">>

(***************************************************************************)
(* The nodes of a document, found without the finder: every value of the   *)
(* tree with the keys and indices that lead to it, and the path string the *)
(* specification gives to such a route (keys joined with ".", an index     *)
(* appended as "[i]" with no dot before the bracket).                      *)
(***************************************************************************)
KeySeg(k) == [isKey |-> TRUE, key |-> k, index |-> 0]
IndexSeg(i) == [isKey |-> FALSE, key |-> "", index |-> i]

RECURSIVE Walk(_, _)
Walk(node, segs) ==
    {[segs |-> segs, value |-> node]}
    \cup (IF node.kind = "arr"
          THEN UNION {Walk(node.items[n], Append(segs, IndexSeg(n - 1)))
                      : n \in 1..Len(node.items)}
          ELSE IF node.kind = "obj"
          THEN UNION {Walk(node.fields[n].v, Append(segs, KeySeg(node.fields[n].k)))
                      : n \in 1..Len(node.fields)}
          ELSE {})

RECURSIVE Render(_)
Render(segs) ==
    IF segs = <<>> THEN <<>>
    ELSE LET front == Render(SubSeq(segs, 1, Len(segs) - 1))
             last == segs[Len(segs)]
         IN IF ~last.isKey THEN front \o <<"[", ToString(last.index), "]">>
            ELSE IF front = <<>> THEN <<last.key>>
            ELSE front \o <<".", last.key>>

\* the descriptors with no weak marker that the document d of the last scan
\* held under an object key at the start
StrongAtStart(d) ==
    {n \in Walk(DocById(store0, Get(documents[d], "_id")), <<>>) :
        /\ IsStrongDescriptor(n.value)
        /\ n.segs # <<>> /\ n.segs[Len(n.segs)].isKey}

\* the occurrences the last scan found in its document d at the path p
Hits(d, p) ==
    {gr \in UNION {{<<g, r>> : r \in 1..Len(strongRefs[g].references)}
                   : g \in 1..Len(strongRefs)} :
        /\ strongRefs[gr[1]].document = documents[d]
        /\ strongRefs[gr[1]].references[gr[2]].path = p}

\* the descriptor of n as the last scan saw it in its document d
AsScanned(d, n) == GetAt(documents[d], Render(n.segs))

\* a strong-to-weak scan finds a descriptor with no weak marker once, with
\* weak = false (the first half of C11)
StrongFoundOnce(d, n) ==
    (refsType = "strong-to-weak" /\ IsStrongDescriptor(AsScanned(d, n))) =>
        /\ Cardinality(Hits(d, Render(n.segs))) = 1
        /\ \A gr \in Hits(d, Render(n.segs)) :
              LET ref == strongRefs[gr[1]].references[gr[2]]
              IN ref.weak = Bool(FALSE) /\ ref.ref = Get(n.value, "_ref")

\* the descriptor of n was made weak by a patch before the last scan, which
\* was a weak-to-strong scan
PatchedThenScannedWeak(d, n) ==
    refsType = "weak-to-strong" /\ Truthy(Get(AsScanned(d, n), "_weak"))

C15_Original ==
    Len(scans) + (IF run.pc = "await" THEN 1 ELSE 0) <= 1

(***************************************************************************)
(* More properties of the conversion pipeline (SpecPipeline).              *)
(***************************************************************************)
\* the groups converted so far: those whose commit the store confirmed, in
\* a dry run those gone through
Succeeded(c) ==
    IF c.dry THEN {c.attempted[m] : m \in 1..Len(c.attempted)}
    ELSE {n \in 1..Len(c.outcomes) : c.outcomes[n].ok}

\* the number of occurrences of the groups of S among the first n
RECURSIVE RefsOf(_, _, _)
RefsOf(groups, S, n) ==
    IF n = 0 THEN 0
    ELSE RefsOf(groups, S, n - 1) + (IF n \in S THEN Len(groups[n].references) ELSE 0)

\* C12: all along a run convertedCount is the number of groups converted so
\* far, one per group whatever its number of occurrences, and the estimate
\* of the space saved is 20 times the occurrences of these groups in
\* strong-to-weak mode and 0 in weak-to-strong mode; a group whose commit
\* failed adds to neither, and the result delivered holds the two numbers.
C12_CountAndSpace ==
    run.pc \in {"await", "done"} =>
        /\ run.converted = Cardinality(Succeeded(run))
        /\ run.spaceSaved =
              (IF run.mode = "strong-to-weak"
               THEN 20 * RefsOf(run.groups, Succeeded(run), Len(run.groups))
               ELSE 0)
        /\ run.pc = "done" =>
              /\ calls[1].arg.converted = run.converted
              /\ calls[1].arg.spaceSaved = run.spaceSaved

\* a strong-to-weak run over a group of two occurrences that failed, one of
\* two occurrences and one of one occurrence that succeeded
C12_Witness ==
    /\ run.pc = "done" /\ ~run.dry /\ run.mode = "strong-to-weak"
    /\ Len(run.groups) = 3
    /\ Len(run.groups[1].references) = 2 /\ ~run.outcomes[1].ok
    /\ Len(run.groups[2].references) = 2 /\ run.outcomes[2].ok
    /\ Len(run.groups[3].references) = 1 /\ run.outcomes[3].ok
    /\ run.converted = 2 /\ run.spaceSaved = 60

\* C14: the commits are issued one after the other: at most one commit is
\* without its answer, and only while the handler awaits it; the commit of
\* a group is issued when every commit before it has been answered, by a
\* confirmation or by a failure; and the commits follow the group list.
C14_OneCommitInFlight ==
    LET issued == Len(run.commits)
        answered == Len(run.outcomes)
    IN /\ issued - answered \in {0, 1}
       /\ issued - answered = 1 <=> run.pc = "await"
       /\ \A n \in 1..issued :
             /\ run.commits[n].id = Get(run.groups[n].document, "_id")
             /\ run.attempted[n] = n

\* the third commit in flight, after a failure and a confirmation, in a
\* batch of two or more groups
C14_Witness ==
    /\ run.pc = "await" /\ run.b >= 2
    /\ Len(run.commits) = 3 /\ Len(run.outcomes) = 2
    /\ ~run.outcomes[1].ok /\ run.outcomes[2].ok

\* C18: in a run that is no dry run the n-th commit is the one commit of the
\* n-th group: it is addressed to the id of the group's document and holds
\* one set operation per occurrence of the group, at the occurrence's path
\* (a path into that document, each path once) and with a descriptor of
\* the occurrence's target id; no two commits go to the same document,
\* whatever failed, and at the end every group has had its commit.
C18_OneCommitPerGroup ==
    ~run.dry =>
        /\ Len(run.commits) <= Len(run.groups)
        /\ run.pc = "done" => Len(run.commits) = Len(run.groups)
        /\ \A n, m \in 1..Len(run.commits) :
              n # m => run.commits[n].id # run.commits[m].id
        /\ \A n \in 1..Len(run.commits) :
              LET commit == run.commits[n]
                  group == run.groups[n]
              IN /\ commit.id = Get(group.document, "_id")
                 /\ Len(commit.ops) = Len(group.references)
                 /\ \A r, q \in 1..Len(commit.ops) :
                       r # q => commit.ops[r].path # commit.ops[q].path
                 /\ \A r \in 1..Len(commit.ops) :
                       /\ commit.ops[r].path = group.references[r].path
                       /\ IsReferenceType(commit.ops[r].value)
                       /\ Get(commit.ops[r].value, "_ref") = group.references[r].ref
                       /\ Get(GetAt(group.document, commit.ops[r].path), "_ref")
                             = group.references[r].ref

\* a finished run of three commits, the first one failed, the second one
\* with the two set operations of its group
C18_Witness ==
    /\ run.pc = "done" /\ ~run.dry
    /\ Len(run.commits) = 3
    /\ ~run.outcomes[1].ok
    /\ Len(run.commits[2].ops) = 2
    /\ run.commits[2].ops[1].path = <<"items", "[", "1", "]", ".", "linked">>
    /\ run.commits[2].ops[2].path = <<"editor">>

\* C19: with batchSize >= 1 and a store that answers every commit, a run
\* that has started (the component is loading) comes to its end: the
\* loading state is left and the result delivered, once; and every
\* iteration of the batch loop that completes moves the loop index forward,
\* by batchSize.
C19_RunCompletes ==
    /\ [][/\ batchSize >= 1
          /\ run'.i = run.i + batchSize * (Len(run'.progress) - Len(run.progress))
          /\ Len(run'.progress) > Len(run.progress) => run'.i > run.i]_vars
    /\ isLoading ~> (~isLoading /\ run.pc = "done" /\ run.delivered = 1)

\* the end of a run of three batches or more in which a commit failed and a
\* later one was confirmed
C19_Witness ==
    /\ run.pc = "done" /\ ~run.dry /\ ~isLoading
    /\ Len(run.batches) >= 3 /\ run.i >= Len(run.groups)
    /\ \E n, m \in 1..Len(run.outcomes) :
          n < m /\ ~run.outcomes[n].ok /\ run.outcomes[m].ok

(***************************************************************************)
(* Properties of the scan (SpecScan).                                      *)
(***************************************************************************)
\* an object with the type tag 'reference' and a target id
IsDescriptor(v) == IsReferenceType(v) /\ Truthy(Get(v, "_ref"))

\* the occurrences of the last scan, each with its group
Occurrences ==
    UNION {{[group |-> strongRefs[g], ref |-> strongRefs[g].references[r]]
            : r \in 1..Len(strongRefs[g].references)} : g \in 1..Len(strongRefs)}

\* C13: in either mode the path of an occurrence is the route from the
\* root of its document to a reference descriptor, written with the keys
\* joined by "." and an index appended as "[i]" with no dot before the
\* bracket; following the path in the document reaches that descriptor, and
\* its target id is the occurrence's.
C13_PathLeadsToDescriptor ==
    \A o \in Occurrences :
        /\ o.ref.path # <<>>
        /\ \E n \in Walk(o.group.document, <<>>) :
              /\ Render(n.segs) = o.ref.path
              /\ GetAt(o.group.document, o.ref.path) = n.value
              /\ IsDescriptor(n.value)
              /\ Get(n.value, "_ref") = o.ref.ref

\* the occurrence a weak-to-strong scan gives to the descriptor under
\* 'linked' in the object at index 1 of the array 'items'
C13_Witness ==
    \E o \in Occurrences :
        /\ o.ref.path = <<"items", "[", "1", "]", ".", "linked">>
        /\ o.ref.ref = Str("y")
        /\ refsType = "weak-to-strong"

\* C16: a reference descriptor is a leaf for the finder in both modes: no
\* occurrence has a path that passes through a descriptor, that is, leads
\* to a value held inside a descriptor of the document.
C16_Original ==
    \A o \in Occurrences :
        ~\E n \in Walk(o.group.document, <<>>) :
            /\ IsDescriptor(n.value)
            /\ \E m \in Walk(n.value, n.segs) :
                  m.segs # n.segs /\ Render(m.segs) = o.ref.path

\* C17: after a scan that succeeded the groups are, in the order of the
\* documents fetched, those of the fetched documents in which the finder
\* found an occurrence in the mode of the scan: one group each, holding the
\* document and all its occurrences, none of them empty; a document with
\* no occurrence has no group.
C17_GroupsOfScan ==
    refsType # "none" =>
        LET Matches(d) == findReferences(d, refsType, <<>>) # <<>>
            matching == SelectSeq(documents, Matches)
        IN /\ Len(strongRefs) = Len(matching)
           /\ \A g \in 1..Len(strongRefs) :
                 /\ strongRefs[g].document = matching[g]
                 /\ strongRefs[g].references = findReferences(matching[g], refsType, <<>>)
                 /\ strongRefs[g].references # <<>>
                 /\ strongRefs[g].refCount = Len(strongRefs[g].references)

\* a scan that fetched three of four documents and dropped the second one
C17_Witness ==
    /\ refsType # "none"
    /\ Len(store) = 4 /\ Len(documents) = 3
    /\ Len(strongRefs) = 2
    /\ strongRefs[1].document = documents[1]
    /\ strongRefs[2].document = documents[3]
    /\ strongRefs[2].refCount = 2

====
